---- MODULE Spec2Model ----
(***************************************************************************)
(* Model of webhook_server.py: the Midtrans notification handler           *)
(* (midtrans_notification) and the accounting / inventory pipeline         *)
(* (record_sales_journal) working against the Supabase tables orders,      *)
(* products, journal_entries, journal_lines and inventory_movements.       *)
(*                                                                         *)
(* One step of a handler is one store call (.execute()); the Python code   *)
(* between two store calls runs atomically with the call that precedes it. *)
(* Every store call may raise; a call that raises has not been applied.    *)
(***************************************************************************)
EXTENDS Integers, Sequences, FiniteSets, TLC

VARIABLES
    orders,               \* table orders: id -> [status, midtrans_order_id]
    products,             \* table products: id -> row
    journal_entries,      \* table journal_entries: set of rows
    journal_lines,        \* table journal_lines: set of rows
    inventory_movements,  \* table inventory_movements: set of rows
    handler,              \* the requests in flight: slot -> frame of midtrans_notification
    completed,            \* history: the orders for which record_sales_journal has reached line 119
    faults,               \* environment: how many store calls may still raise (-1: any number)
    stock0                \* history: the stock of product 1 before any notification

vars ==
    <<orders, products, journal_entries, journal_lines, inventory_movements, handler,
      completed, faults, stock0>>

tables == <<orders, products, journal_entries, journal_lines, inventory_movements>>

ledger == <<products, journal_entries, journal_lines, inventory_movements>>

-----------------------------------------------------------------------------
(* Bounds of the model *)

\* the stock of product 1 before any notification ranges over 0..MaxStock
MaxStock == 3

\* number of store calls that raise in one behaviour of Spec
MaxRaised == 1

-----------------------------------------------------------------------------
(* Values *)

\* Python None / SQL NULL in a text column or a missing text key
Null == "null"

\* Python None / SQL NULL in a numeric column is the empty sequence, a value n is <<n>>
None == <<>>

Some(n) == <<n>>

\* x.get(key, 0) or 0 ; also "if x is None: x = 0"
OrZero(x) == IF x = None THEN 0 ELSE x[1]

CASH_ACCOUNT == "1-1100"

SALES_ACCOUNT == "4-1100"

DEFAULT_INVENTORY_ACC == "1-1200"

DEFAULT_HPP_ACC == "5-1100"

\* the requests that can be in flight at once
Slots == {1, 2}

-----------------------------------------------------------------------------
(* The rows the order-placement flow created before any notification *)

\* order_items rows: product_id 9 names a product whose relation cannot be read
OrderItems ==
    [o \in {1, 2} |->
        IF o = 1
        THEN << [product_id |-> 1, quantity |-> 1],
                [product_id |-> 2, quantity |-> 1] >>
        ELSE << [product_id |-> 1, quantity |-> 1],
                [product_id |-> 9, quantity |-> 2],
                [product_id |-> 2, quantity |-> 0],
                [product_id |-> 1, quantity |-> 2] >>]

OrderTotal == [o \in {1, 2} |-> IF o = 1 THEN 5 ELSE 7]


OrderUser == [o \in {1, 2} |-> 1]

OrderIds == DOMAIN OrderItems

ProductIds == {1, 2}

\* the products rows for a stock s of product 1;
\* product 2 has no cost price, no stock value and no account codes set
ProductRows(s) ==
    [p \in ProductIds |->
        IF p = 1
        THEN [cost_price |-> Some(2), stock |-> Some(s),
              inventory_account_code |-> "1-1210", hpp_account_code |-> "5-1110"]
        ELSE [cost_price |-> None, stock |-> None,
              inventory_account_code |-> Null, hpp_account_code |-> Null]]

-----------------------------------------------------------------------------
(* The notification payload *)

\* order_id as a string is a sequence of characters
Digits == <<"0", "1", "2", "3", "4", "5", "6", "7", "8", "9">>

IsDigit(c) == \E d \in 1..10 : Digits[d] = c

DigitVal(c) == (CHOOSE d \in 1..10 : Digits[d] = c) - 1

\* int(s) raises ValueError unless s is a decimal numeral
IntParses(s) == Len(s) > 0 /\ \A i \in 1..Len(s) : IsDigit(s[i])

RECURSIVE ToInt(_)
ToInt(s) ==
    IF s = <<>> THEN 0
    ELSE 10 * ToInt(SubSeq(s, 1, Len(s) - 1)) + DigitVal(s[Len(s)])

\* raw_order_id.split("-")[0] if "-" in raw_order_id else raw_order_id
CleanOrderId(raw) ==
    IF \E i \in 1..Len(raw) : raw[i] = "-"
    THEN LET first == CHOOSE i \in 1..Len(raw) :
                          raw[i] = "-" /\ \A j \in 1..(i - 1) : raw[j] # "-"
         IN SubSeq(raw, 1, first - 1)
    ELSE raw

\* payload.get("order_id", "") ; the empty sequence is a missing or empty order_id
RawOrderIds ==
    { <<>>, <<"1", "-", "7">>, <<"2", "-", "7">>, <<"3">>,
      <<"a", "b">>, <<"-", "1">> }

\* payload.get("transaction_status") ; Null when the key is absent
TransactionStatuses ==
    {"capture", "settlement", "deny", "expire", "cancel", "pending", "refund", Null}

TransactionIds == {"t1"}

\* parsable = FALSE : request.json() raises
Payloads ==
    [parsable : {TRUE}, order_id : RawOrderIds,
     transaction_status : TransactionStatuses, transaction_id : TransactionIds]
    \cup
    {[parsable |-> FALSE, order_id |-> <<>>, transaction_status |-> Null,
      transaction_id |-> Null]}

\* the notifications delivered concurrently under Spec
ConcurrentPayloads ==
    {p \in Payloads :
        /\ p.parsable
        /\ p.order_id \in {<<"1", "-", "7">>, <<"2", "-", "7">>}
        /\ p.transaction_status = "settlement"
        /\ p.transaction_id = "t1"}

-----------------------------------------------------------------------------
(* The frame of one request *)

NoOrder == [total_amount |-> 0, user_id |-> 0, order_items |-> <<>>]

NoResponse == [status_code |-> 0, status |-> "", journal_processed |-> <<>>]

\* the fields below "response" only observe the run; no step reads them
IdleFrame ==
    [pc |-> "idle",
     payload |-> [parsable |-> FALSE, order_id |-> <<>>, transaction_status |-> Null,
                  transaction_id |-> Null],
     order_id |-> 0,
     new_status |-> Null,
     journal_recorded |-> FALSE,
     order |-> NoOrder,
     journal_id |-> 0,
     lines |-> <<>>,
     movements_to_insert |-> <<>>,
     idx |-> 0,
     response |-> NoResponse,
     posted |-> FALSE,
     pipe_raised |-> FALSE,
     update_issued |-> FALSE,
     update_failed |-> FALSE,
     rerun |-> FALSE]

\* return {"status": "ok", "journal_processed": journal_recorded}
OkResponse(journal_recorded) ==
    [status_code |-> 200, status |-> "ok", journal_processed |-> <<journal_recorded>>]

\* raise HTTPException(status_code=code, detail=...)
HTTPException(code, detail) ==
    [status_code |-> code, status |-> detail, journal_processed |-> <<>>]

\* "except Exception as e" of midtrans_notification: whatever was raised inside the
\* try block, the HTTPException(400) of line 146 included, leaves as a 500
WebhookExcept(f, exc) ==
    [f EXCEPT !.pc = "done",
              !.response = HTTPException(500, "Internal Server Error")]

\* MapStatus with "expire" left out of the failed statuses
MapStatusWithoutExpire(transaction_status) ==
    IF transaction_status \in {"capture", "settlement"} THEN "settle"
    ELSE IF transaction_status \in {"deny", "cancel"} THEN "failed"
    ELSE transaction_status

\* transaction_status -> new_status
MapStatus(transaction_status) ==
    IF transaction_status \in {"capture", "settlement"} THEN "settle"
    ELSE IF transaction_status \in {"deny", "expire", "cancel"} THEN "failed"
    ELSE transaction_status

\* IsSuccessStatus taking "pending" for a success status too
IsSuccessStatusWithPending(transaction_status) ==
    transaction_status \in {"capture", "settlement", "pending"}

\* record_sales_journal is called for these
IsSuccessStatus(transaction_status) == transaction_status \in {"capture", "settlement"}

\* the handler from request.json() up to its first store call
StartRequest(f, p, done) ==
    LET order_id == CleanOrderId(p.order_id)
        g == [f EXCEPT !.payload = p]
    IN IF ~p.parsable THEN WebhookExcept(g, "JSONDecodeError")
       ELSE IF order_id = <<>>
       THEN WebhookExcept(g, HTTPException(400, "Missing order_id"))
       ELSE IF ~IntParses(order_id) THEN WebhookExcept(g, "ValueError")
       ELSE [g EXCEPT !.order_id = ToInt(order_id),
                      !.new_status = MapStatus(p.transaction_status),
                      !.rerun = ToInt(order_id) \in done,
                      !.pc = IF IsSuccessStatus(p.transaction_status)
                             THEN "guard" ELSE "update_order"]

-----------------------------------------------------------------------------
(* record_sales_journal *)

\* Return with the handler answering at once when the pipeline returns False
ReturnSkippingUpdateOnFalse(f, value) ==
    IF value
    THEN [f EXCEPT !.journal_recorded = value, !.pc = "update_order",
                   !.order = NoOrder, !.journal_id = 0, !.lines = <<>>,
                   !.movements_to_insert = <<>>, !.idx = 0]
    ELSE [f EXCEPT !.journal_recorded = value, !.pc = "done",
                   !.response = OkResponse(FALSE),
                   !.order = NoOrder, !.journal_id = 0, !.lines = <<>>,
                   !.movements_to_insert = <<>>, !.idx = 0]

\* "return value" of record_sales_journal: back in the handler, before the order update
Return(f, value) ==
    [f EXCEPT !.journal_recorded = value, !.pc = "update_order",
              !.order = NoOrder, !.journal_id = 0, !.lines = <<>>,
              !.movements_to_insert = <<>>, !.idx = 0]

\* PipelineExcept with the exception leaving record_sales_journal
PipelineExceptReraising(f, call) == WebhookExcept([f EXCEPT !.pipe_raised = TRUE], call)

\* "except Exception as e: ... return False" of record_sales_journal
PipelineExcept(f, call) == Return([f EXCEPT !.pipe_raised = TRUE], FALSE)

\* Existing with the filter on the header's own id: .eq("id", order_id)
ExistingById(order_id) == {j \in journal_entries : j.id = order_id}

\* supabase.table("journal_entries").select("id").eq("order_id", order_id)
Existing(order_id) == {j \in journal_entries : j.order_id = order_id}

\* select("*, order_items(*, products(*))").eq("id", order_id): data[0]
Snapshot(order_id) ==
    [total_amount |-> OrderTotal[order_id],
     user_id |-> OrderUser[order_id],
     order_items |->
        [i \in 1..Len(OrderItems[order_id]) |->
            LET item == OrderItems[order_id][i]
            IN [product_id |-> item.product_id,
                quantity |-> item.quantity,
                products |-> IF item.product_id \in DOMAIN products
                             THEN <<products[item.product_id]>> ELSE <<>>]]]

\* CostPrice with a default cost of 1 for a missing product
CostPriceDefaultingToOne(product_data) ==
    IF product_data = <<>> THEN 1 ELSE OrZero(product_data[1].cost_price)

\* product_data.get("cost_price", 0) or 0, with product_data = {} for a missing product
CostPrice(product_data) ==
    IF product_data = <<>> THEN 0 ELSE OrZero(product_data[1].cost_price)

\* product_data.get("inventory_account_code", '1-1200'): the default only for a missing key
InventoryAcc(product_data) ==
    IF product_data = <<>> THEN DEFAULT_INVENTORY_ACC
    ELSE product_data[1].inventory_account_code

\* product_data.get("hpp_account_code", '5-1100')
HppAcc(product_data) ==
    IF product_data = <<>> THEN DEFAULT_HPP_ACC ELSE product_data[1].hpp_account_code

\* product_data.get("stock") ; None -> 0
CurrentStock(product_data) ==
    IF product_data = <<>> THEN 0 ELSE OrZero(product_data[1].stock)

\* NewStock without "if new_stock < 0: new_stock = 0"
NewStockUnclamped(current_stock, quantity_sold) == current_stock - quantity_sold

\* new_stock = current_stock - quantity_sold ; if new_stock < 0: new_stock = 0
NewStock(current_stock, quantity_sold) ==
    IF current_stock - quantity_sold < 0 THEN 0 ELSE current_stock - quantity_sold

\* one element of lines
JournalLine(journal_id, account_code, debit_amount, credit_amount) ==
    [journal_id |-> journal_id, account_code |-> account_code,
     debit_amount |-> debit_amount, credit_amount |-> credit_amount]

\* step 4: debit cash, credit sales
RevenueLines(journal_id, total_revenue) ==
    << JournalLine(journal_id, CASH_ACCOUNT, total_revenue, 0),
       JournalLine(journal_id, SALES_ACCOUNT, 0, total_revenue) >>

\* HppLines with the inventory credit of one unit instead of quantity_sold units
HppLinesCreditingUnitCost(journal_id, item) ==
    LET cost_price == CostPrice(item.products)
        cost_of_sale == item.quantity * cost_price
    IN IF cost_price > 0
       THEN << JournalLine(journal_id, HppAcc(item.products), cost_of_sale, 0),
               JournalLine(journal_id, InventoryAcc(item.products), 0, cost_price) >>
       ELSE <<>>

\* HppLines without "if cost_price > 0"
HppLinesWithoutCostCheck(journal_id, item) ==
    LET cost_price == CostPrice(item.products)
        cost_of_sale == item.quantity * cost_price
    IN << JournalLine(journal_id, HppAcc(item.products), cost_of_sale, 0),
          JournalLine(journal_id, InventoryAcc(item.products), 0, cost_of_sale) >>

\* step 5.A: the HPP lines of one item, none unless cost_price > 0
HppLines(journal_id, item) ==
    LET cost_price == CostPrice(item.products)
        cost_of_sale == item.quantity * cost_price
    IN IF cost_price > 0
       THEN << JournalLine(journal_id, HppAcc(item.products), cost_of_sale, 0),
               JournalLine(journal_id, InventoryAcc(item.products), 0, cost_of_sale) >>
       ELSE <<>>

\* step 5.B: the movement of one item
Movement(order_id, item) ==
    [product_id |-> item.product_id, movement_type |-> "ISSUE",
     quantity_change |-> 0 - item.quantity, unit_cost |-> CostPrice(item.products),
     reference_id |-> order_id]

\* step 5.C is reached for this item: "if quantity_sold > 0" and "if product_data"
NeedsStockUpdate(item) == item.quantity > 0 /\ item.products # <<>>

\* "if lines:" / "if movements_to_insert:" / return True, from the end of the loop on
AfterMovements(f) == Return([f EXCEPT !.posted = TRUE], TRUE)

AfterLines(f) ==
    IF f.movements_to_insert # <<>> THEN [f EXCEPT !.pc = "insert_movements"]
    ELSE AfterMovements(f)

AfterLoop(f) ==
    IF f.lines # <<>> THEN [f EXCEPT !.pc = "insert_lines"] ELSE AfterLines(f)

\* "for item in order["order_items"]" from item f.idx up to the next store call
RECURSIVE ItemLoop(_)
ItemLoop(f) ==
    IF f.idx > Len(f.order.order_items) THEN AfterLoop(f)
    ELSE LET item == f.order.order_items[f.idx]
         IN IF item.quantity > 0
            THEN LET g == [f EXCEPT
                             !.lines = @ \o HppLines(f.journal_id, item),
                             !.movements_to_insert = Append(@, Movement(f.order_id, item))]
                 IN IF NeedsStockUpdate(item)
                    THEN [g EXCEPT !.pc = "update_stock"]
                    ELSE ItemLoop([g EXCEPT !.idx = @ + 1])
            ELSE ItemLoop([f EXCEPT !.idx = @ + 1])

\* the rows a bulk insert of the list rows adds to a table. Each row gets a row id no
\* other row has: the id of the journal header of the inserting run and the place in the list
Inserted(journal_id, rows) ==
    {[id |-> <<journal_id, i>>, row |-> rows[i]] : i \in 1..Len(rows)}

-----------------------------------------------------------------------------
(* Initial state: the orders are pending, nothing has been posted *)

TypeStock == 0..MaxStock

Init ==
    /\ orders = [o \in OrderIds |-> [status |-> "pending", midtrans_order_id |-> Null]]
    /\ stock0 \in TypeStock
    /\ products = ProductRows(stock0)
    /\ journal_entries = {}
    /\ journal_lines = {}
    /\ inventory_movements = {}
    /\ handler = [h \in Slots |-> IdleFrame]
    /\ completed = {}
    /\ faults = MaxRaised

\* the same, with no limit on the store calls that raise
InitSeq ==
    /\ orders = [o \in OrderIds |-> [status |-> "pending", midtrans_order_id |-> Null]]
    /\ stock0 \in TypeStock
    /\ products = ProductRows(stock0)
    /\ journal_entries = {}
    /\ journal_lines = {}
    /\ inventory_movements = {}
    /\ handler = [h \in Slots |-> IdleFrame]
    /\ completed = {}
    /\ faults = -1

-----------------------------------------------------------------------------
(* Steps *)

\* a store call raises
Raise ==
    /\ faults # 0
    /\ faults' = IF faults > 0 THEN faults - 1 ELSE faults
    /\ UNCHANGED stock0

\* a store call answers
Answer == UNCHANGED <<faults, stock0>>

Set(h, f) ==
    /\ handler' = [handler EXCEPT ![h] = f]
    /\ completed' = IF f.pc = "update_order" /\ f.posted
                    THEN completed \cup {f.order_id} ELSE completed

\* a notification arrives: lines 132-160
Receive(h, p) ==
    /\ handler[h].pc = "idle"
    /\ Set(h, StartRequest(handler[h], p, completed))
    /\ UNCHANGED <<tables, faults, stock0>>

\* lines 22-26: the idempotency check
CheckDuplicate(h) ==
    LET f == handler[h]
    IN /\ f.pc = "guard"
       /\ \/ /\ Raise
             /\ Set(h, PipelineExcept(f, "guard"))
          \/ /\ Answer
             /\ Set(h, IF Existing(f.order_id) # {} THEN Return(f, TRUE)
                       ELSE [f EXCEPT !.pc = "load"])
       /\ UNCHANGED tables

\* LoadOrder returning True when the order is not found
LoadOrderReturningTrueWhenMissing(h) ==
    LET f == handler[h]
    IN /\ f.pc = "load"
       /\ \/ /\ Raise
             /\ Set(h, PipelineExcept(f, "load"))
          \/ /\ Answer
             /\ Set(h, IF f.order_id \notin DOMAIN orders THEN Return(f, TRUE)
                       ELSE [f EXCEPT !.order = Snapshot(f.order_id), !.pc = "header"])
       /\ UNCHANGED tables

\* lines 28-46: read the order with its items and products
LoadOrder(h) ==
    LET f == handler[h]
    IN /\ f.pc = "load"
       /\ \/ /\ Raise
             /\ Set(h, PipelineExcept(f, "load"))
          \/ /\ Answer
             /\ Set(h, IF f.order_id \notin DOMAIN orders THEN Return(f, FALSE)
                       ELSE [f EXCEPT !.order = Snapshot(f.order_id), !.pc = "header"])
       /\ UNCHANGED tables

\* lines 48-60 and the loop of lines 63-110 up to its first stock update
InsertHeader(h) ==
    LET f == handler[h]
        journal_id == Cardinality(journal_entries) + 1
    IN /\ f.pc = "header"
       /\ \/ /\ Raise
             /\ Set(h, PipelineExcept(f, "header"))
             /\ UNCHANGED tables
          \/ /\ Answer
             /\ journal_entries' = journal_entries \cup
                    {[id |-> journal_id, order_id |-> f.order_id,
                      user_id |-> f.order.user_id, entry_type |-> "REGULAR"]}
             /\ Set(h, ItemLoop([f EXCEPT
                            !.journal_id = journal_id,
                            !.lines = RevenueLines(journal_id, f.order.total_amount),
                            !.idx = 1]))
             /\ UNCHANGED <<orders, products, journal_lines, inventory_movements>>

\* UpdateStock computing new_stock from the row now in the store, not from the snapshot
UpdateStockAtomicDecrement(h) ==
    LET f == handler[h]
        item == f.order.order_items[f.idx]
        new_stock == NewStock(OrZero(products[item.product_id].stock), item.quantity)
    IN /\ f.pc = "update_stock"
       /\ \/ /\ Raise
             /\ Set(h, PipelineExcept(f, "stock"))
             /\ UNCHANGED tables
          \/ /\ Answer
             /\ products' = [p \in DOMAIN products |->
                                IF p = item.product_id
                                THEN [products[p] EXCEPT !.stock = Some(new_stock)]
                                ELSE products[p]]
             /\ Set(h, ItemLoop([f EXCEPT !.idx = @ + 1]))
             /\ UNCHANGED <<orders, journal_entries, journal_lines, inventory_movements>>

\* lines 103-110, then the loop up to the next stock update
UpdateStock(h) ==
    LET f == handler[h]
        item == f.order.order_items[f.idx]
        new_stock == NewStock(CurrentStock(item.products), item.quantity)
    IN /\ f.pc = "update_stock"
       /\ \/ /\ Raise
             /\ Set(h, PipelineExcept(f, "stock"))
             /\ UNCHANGED tables
          \/ /\ Answer
             /\ products' = [p \in DOMAIN products |->
                                IF p = item.product_id
                                THEN [products[p] EXCEPT !.stock = Some(new_stock)]
                                ELSE products[p]]
             /\ Set(h, ItemLoop([f EXCEPT !.idx = @ + 1]))
             /\ UNCHANGED <<orders, journal_entries, journal_lines, inventory_movements>>

\* lines 113-114
InsertLines(h) ==
    LET f == handler[h]
    IN /\ f.pc = "insert_lines"
       /\ \/ /\ Raise
             /\ Set(h, PipelineExcept(f, "lines"))
             /\ UNCHANGED tables
          \/ /\ Answer
             /\ journal_lines' = journal_lines \cup Inserted(f.journal_id, f.lines)
             /\ Set(h, AfterLines(f))
             /\ UNCHANGED <<orders, products, journal_entries, inventory_movements>>

\* lines 116-120
InsertMovements(h) ==
    LET f == handler[h]
    IN /\ f.pc = "insert_movements"
       /\ \/ /\ Raise
             /\ Set(h, PipelineExcept(f, "movements"))
             /\ UNCHANGED tables
          \/ /\ Answer
             /\ inventory_movements' =
                    inventory_movements \cup
                    Inserted(f.journal_id, f.movements_to_insert)
             /\ Set(h, AfterMovements(f))
             /\ UNCHANGED <<orders, products, journal_entries, journal_lines>>

\* lines 161-167: the order update and the response
UpdateOrder(h) ==
    LET f == handler[h]
        g == [f EXCEPT !.update_issued = TRUE]
    IN /\ f.pc = "update_order"
       /\ \/ /\ Raise
             /\ handler' = [handler EXCEPT ![h] =
                    WebhookExcept([g EXCEPT !.update_failed = TRUE], "StorageError")]
             /\ UNCHANGED tables
          \/ /\ Answer
             /\ orders' = [o \in DOMAIN orders |->
                              IF o = f.order_id
                              THEN [status |-> f.new_status,
                                    midtrans_order_id |-> f.payload.transaction_id]
                              ELSE orders[o]]
             /\ handler' = [handler EXCEPT ![h] =
                    [g EXCEPT !.pc = "done",
                              !.response = OkResponse(f.journal_recorded)]]
             /\ UNCHANGED ledger
       /\ UNCHANGED completed

\* the response has been sent; the slot serves the next request
Reply(h) ==
    /\ handler[h].pc = "done"
    /\ handler' = [handler EXCEPT ![h] = IdleFrame]
    /\ UNCHANGED <<tables, completed, faults, stock0>>

\* no request is being handled
AllIdle == \A h \in Slots : handler[h].pc = "idle"

\* a notification arrives while no other is being handled
ReceiveAlone(p) == AllIdle /\ Receive(1, p)

Step(h) ==
    \/ CheckDuplicate(h)
    \/ LoadOrder(h)
    \/ InsertHeader(h)
    \/ UpdateStock(h)
    \/ InsertLines(h)
    \/ InsertMovements(h)
    \/ UpdateOrder(h)
    \/ Reply(h)

\* deliveries overlap: the requests interleave store call by store call
Next ==
    \/ \E h \in Slots, p \in ConcurrentPayloads : Receive(h, p)
    \/ \E h \in Slots : Step(h)

Spec == Init /\ [][Next]_vars

\* deliveries do not overlap: any payload, one request at a time
NextSeq ==
    \/ \E p \in Payloads : ReceiveAlone(p)
    \/ \E h \in Slots : Step(h)

SpecSeq == InitSeq /\ [][NextSeq]_vars

-----------------------------------------------------------------------------
(* Reading the tables *)

JournalsOf(o) == {j \in journal_entries : j.order_id = o}

LinesOf(j) == {l \in journal_lines : l.row.journal_id = j.id}

\* reference_id "ORDER-{order_id}"
MovementsOf(o) == {m \in inventory_movements : m.row.reference_id = o}

RECURSIVE SumDebit(_)
SumDebit(S) ==
    IF S = {} THEN 0
    ELSE LET l == CHOOSE x \in S : TRUE
         IN l.row.debit_amount + SumDebit(S \ {l})

RECURSIVE SumCredit(_)
SumCredit(S) ==
    IF S = {} THEN 0
    ELSE LET l == CHOOSE x \in S : TRUE
         IN l.row.credit_amount + SumCredit(S \ {l})

RECURSIVE SumChange(_)
SumChange(S) ==
    IF S = {} THEN 0
    ELSE LET m == CHOOSE x \in S : TRUE
         IN m.row.quantity_change + SumChange(S \ {m})

\* the order lines of order o that sell something
SoldItems(o) == {i \in 1..Len(OrderItems[o]) : OrderItems[o][i].quantity > 0}

RECURSIVE QuantityOf(_, _)
QuantityOf(o, I) ==
    IF I = {} THEN 0
    ELSE LET i == CHOOSE x \in I : TRUE
         IN OrderItems[o][i].quantity + QuantityOf(o, I \ {i})

\* the quantity of product p that order o sells
SoldOf(o, p) == QuantityOf(o, {i \in SoldItems(o) : OrderItems[o][i].product_id = p})

StockOf(p) == OrZero(products[p].stock)

\* the request of slot h is a success notification being handled
Settling(h) ==
    /\ handler[h].pc # "idle"
    /\ handler[h].payload.parsable
    /\ IsSuccessStatus(handler[h].payload.transaction_status)

-----------------------------------------------------------------------------
(* C1: however often and however interleaved a success notification is     *)
(* delivered, an order has at most one journal header, and its quantities  *)
(* are taken off the stock at most once: while only order o has been       *)
(* posted, the stock of product 1 is not below the initial stock less what *)
(* o sells.                                                                *)
C1_OneHeaderOneDecrement ==
    \A o \in OrderIds :
        /\ Cardinality(JournalsOf(o)) <= 1
        /\ (\A j \in journal_entries : j.order_id = o)
              => StockOf(1) >= NewStock(stock0, SoldOf(o, 1))

-----------------------------------------------------------------------------
(* C2: deliveries that do not overlap. A success notification for an order *)
(* for which the pipeline has already run to its end: no step of its       *)
(* handling changes journal_entries, journal_lines, inventory_movements or *)
(* products; the pipeline returns True unless its duplicate check raises;  *)
(* the order keeps exactly one journal header and one movement per sold    *)
(* line; the order update writes "settle" and the notification's           *)
(* transaction id.                                                         *)
C2_Step(h) ==
    LET f == handler[h]
        g == handler'[h]
    IN (Settling(h) /\ f.rerun) =>
          /\ UNCHANGED ledger
          /\ (g.pc = "update_order" /\ ~g.pipe_raised) => g.journal_recorded
          /\ Cardinality(JournalsOf(f.order_id)) = 1
          /\ Cardinality(MovementsOf(f.order_id)) = Cardinality(SoldItems(f.order_id))
          /\ SumChange(MovementsOf(f.order_id))
                = 0 - QuantityOf(f.order_id, SoldItems(f.order_id))
          /\ (g.pc = "done" /\ ~g.update_failed) =>
                orders'[f.order_id] =
                    [status |-> "settle",
                     midtrans_order_id |-> f.payload.transaction_id]

-----------------------------------------------------------------------------
(* C3: whenever no notification is being handled, every order with status  *)
(* "settle" has exactly one journal header, and its inventory movements    *)
(* sum to minus the quantity of its order lines.                           *)
C3_SettledOrderIsPosted ==
    AllIdle =>
        \A o \in OrderIds :
            orders[o].status = "settle" =>
                /\ Cardinality(JournalsOf(o)) = 1
                /\ SumChange(MovementsOf(o)) = 0 - QuantityOf(o, SoldItems(o))

-----------------------------------------------------------------------------
(* C4: in every state, the debit amounts of the lines of each journal      *)
(* header sum to the same as their credit amounts.                         *)
C4_Balanced ==
    \A j \in journal_entries : SumDebit(LinesOf(j)) = SumCredit(LinesOf(j))

\* a journal with HPP lines has been posted, and another run stopped after its header
C4_Witness ==
    /\ \E j \in journal_entries : Cardinality(LinesOf(j)) >= 4
    /\ \E j \in journal_entries : LinesOf(j) = {}
    /\ AllIdle

-----------------------------------------------------------------------------
(* C5: in every state, no product has a negative stock.                    *)
C5_StockFloor ==
    \A p \in DOMAIN products :
        products[p].stock # None => products[p].stock[1] >= 0

\* a run has sold 2 of product 1 out of a snapshot stock below 2, and the stock is 0
C5_Witness ==
    \E h \in Slots :
        /\ handler[h].pc = "insert_lines"
        /\ handler[h].order_id = 2
        /\ CurrentStock(handler[h].order.order_items[4].products) < 2
        /\ products[1].stock = Some(0)
        /\ stock0 > 0

-----------------------------------------------------------------------------
(* C6: the order update of a notification with a numeric order id writes   *)
(* "settle" for capture and settlement, "failed" for deny, expire and      *)
(* cancel, and the provider status itself for any other value; only a      *)
(* capture or settlement notification enters record_sales_journal.         *)
PipelinePcs ==
    {"guard", "load", "header", "update_stock", "insert_lines", "insert_movements"}

C6_Step(h) ==
    LET f == handler[h]
        g == handler'[h]
        ts == f.payload.transaction_status
        written == orders'[f.order_id].status
    IN /\ (f.pc = "update_order" /\ g.pc = "done" /\ g.response.status_code = 200
             /\ f.order_id \in DOMAIN orders) =>
              /\ ts \in {"capture", "settlement"} => written = "settle"
              /\ ts \in {"deny", "expire", "cancel"} => written = "failed"
              /\ ts \notin {"capture", "settlement", "deny", "expire", "cancel"}
                    => written = ts
       /\ g.pc \in PipelinePcs =>
              g.payload.transaction_status \in {"capture", "settlement"}

C6_StatusMapping == [][\A h \in Slots : C6_Step(h)]_vars

\* an expire notification has set order 1 to "failed", a pending one has left order 2
\* with the status "pending" and its transaction id
C6_Witness ==
    /\ orders[1].status = "failed"
    /\ orders[2] = [status |-> "pending", midtrans_order_id |-> "t1"]
    /\ \E h \in Slots :
          /\ handler[h].pc = "done"
          /\ handler[h].payload.transaction_status = "expire"
          /\ handler[h].order_id = 1
          /\ handler[h].response.status_code = 200

-----------------------------------------------------------------------------
(* C7: a notification whose order_id is missing or empty, or whose part    *)
(* before the first "-" is empty or no number, is answered 400 and writes  *)
(* nothing to any table.                                                   *)
Unresolvable(p) == p.parsable /\ ~IntParses(CleanOrderId(p.order_id))

C7_Step(h) ==
    LET f == handler[h]
        g == handler'[h]
    IN (f.pc = "idle" /\ g.pc # "idle" /\ Unresolvable(g.payload)) =>
          /\ g.pc = "done"
          /\ g.response.status_code = 400
          /\ UNCHANGED tables

C7_UnresolvableIs400 == [][\A h \in Slots : C7_Step(h)]_vars

-----------------------------------------------------------------------------
(* C8: a notification that parses and has a numeric order id is answered   *)
(* 200 "ok" whichever store call raises, the order update included.        *)
WellFormed(p) == p.parsable /\ IntParses(CleanOrderId(p.order_id))

-----------------------------------------------------------------------------
(* C9: for a capture or settlement notification with a numeric order id,   *)
(* the order update is issued in every run and only after                  *)
(* record_sales_journal has returned; a store call that raises inside      *)
(* record_sales_journal makes it return False, and the answer of the       *)
(* handler is then ok with journal_processed = false.                      *)
C9_UpdateAfterPipeline ==
    \A h \in Slots :
        Settling(h) /\ WellFormed(handler[h].payload) =>
            /\ handler[h].pc = "done" => handler[h].update_issued
            /\ handler[h].update_issued => handler[h].pc = "done"
            /\ handler[h].pipe_raised =>
                  /\ handler[h].pc \in {"update_order", "done"}
                  /\ ~handler[h].journal_recorded
            /\ (handler[h].pc = "done" /\ handler[h].pipe_raised
                  /\ ~handler[h].update_failed) =>
                  handler[h].response = OkResponse(FALSE)

\* the journal line insert raised: header without lines, order set to "settle",
\* answer ok with journal_processed = false
C9_Witness ==
    \E h \in Slots :
        /\ Settling(h)
        /\ handler[h].pc = "done"
        /\ handler[h].pipe_raised
        /\ handler[h].update_issued
        /\ handler[h].response = OkResponse(FALSE)
        /\ \E j \in JournalsOf(handler[h].order_id) : LinesOf(j) = {}
        /\ orders[handler[h].order_id].status = "settle"

-----------------------------------------------------------------------------
(* C10: an order line whose product cannot be resolved. Once the pipeline  *)
(* has run to its end for the order: no inventory movement for that line,  *)
(* no HPP lines for it, no product row touched for it, and the journal     *)
(* holds the cash debit and the sales credit of the order total and        *)
(* balances.                                                               *)
MissingItems(o) == {i \in SoldItems(o) : OrderItems[o][i].product_id \notin ProductIds}

\* the lines an unresolved product would get: the fallback account codes
FallbackLines(j) ==
    {l \in LinesOf(j) : l.row.account_code \in {DEFAULT_HPP_ACC, DEFAULT_INVENTORY_ACC}}

RevenuePosted(o, j) ==
    /\ \E l \in LinesOf(j) : l.row = JournalLine(j.id, CASH_ACCOUNT, OrderTotal[o], 0)
    /\ \E l \in LinesOf(j) : l.row = JournalLine(j.id, SALES_ACCOUNT, 0, OrderTotal[o])
    /\ SumDebit(LinesOf(j)) = SumCredit(LinesOf(j))

NoStockUpdateForMissing ==
    /\ DOMAIN products = ProductIds
    /\ \A h \in Slots :
          handler[h].pc = "update_stock" =>
              handler[h].order.order_items[handler[h].idx].product_id \in ProductIds

C10_NoMovementForMissingProduct ==
    \A o \in completed :
        MissingItems(o) # {} =>
            /\ \A m \in MovementsOf(o) : m.row.product_id \in ProductIds
            /\ JournalsOf(o) # {}
            /\ \A j \in JournalsOf(o) : FallbackLines(j) = {} /\ RevenuePosted(o, j)
            /\ NoStockUpdateForMissing

(* C10 as amended: ... the pipeline records no HPP lines for that line and *)
(* touches no product row for it, but it does record the line's "ISSUE"    *)
(* inventory movement, with quantity_change = -quantity and unit_cost 0;   *)
(* the journal holds the cash debit and the sales credit and balances.     *)
C10_MovementButNoHppForMissingProduct ==
    /\ NoStockUpdateForMissing
    /\ \A o \in completed :
          /\ JournalsOf(o) # {}
          /\ \A j \in JournalsOf(o) : FallbackLines(j) = {} /\ RevenuePosted(o, j)
          /\ \A i \in MissingItems(o) :
                LET ms == {m \in MovementsOf(o) :
                              m.row.product_id = OrderItems[o][i].product_id}
                IN /\ Cardinality(ms) = 1
                   /\ \A m \in ms :
                         /\ m.row.movement_type = "ISSUE"
                         /\ m.row.quantity_change = 0 - OrderItems[o][i].quantity
                         /\ m.row.unit_cost = 0

\* the pipeline has run to its end for order 2, whose second line names product 9
C10_Witness ==
    /\ 2 \in completed
    /\ MissingItems(2) # {}
    /\ \E m \in MovementsOf(2) : m.row.product_id = 9

-----------------------------------------------------------------------------
(* C11: once the pipeline has run to its end for an order (deliveries that *)
(* do not overlap): one header; its lines are exactly the debit of the     *)
(* order total to 1-1100, the credit of the order total to 4-1100 and, for *)
(* each order line with quantity > 0 and cost price > 0, the debit of      *)
(* quantity * cost to the product's HPP account and the credit of the same *)
(* to its inventory account; one "ISSUE" movement of -quantity per order   *)
(* line with quantity > 0; a line of a product without cost price has no   *)
(* HPP lines, and the product's stock has been written.                    *)
ResolvedItems(o) == {i \in SoldItems(o) : OrderItems[o][i].product_id \in ProductIds}

CostedItems(o) ==
    {i \in ResolvedItems(o) : OrZero(products[OrderItems[o][i].product_id].cost_price) > 0}

RowsEqual(S, row) == {x \in S : x.row = row}

C11_Lines(o, j) ==
    /\ Cardinality(RowsEqual(LinesOf(j), JournalLine(j.id, "1-1100", OrderTotal[o], 0))) = 1
    /\ Cardinality(RowsEqual(LinesOf(j), JournalLine(j.id, "4-1100", 0, OrderTotal[o]))) = 1
    /\ Cardinality(LinesOf(j)) = 2 + 2 * Cardinality(CostedItems(o))
    /\ \A i \in CostedItems(o) :
          LET item == OrderItems[o][i]
              p == products[item.product_id]
              cost == item.quantity * p.cost_price[1]
          IN /\ RowsEqual(LinesOf(j), JournalLine(j.id, p.hpp_account_code, cost, 0)) # {}
             /\ RowsEqual(LinesOf(j), JournalLine(j.id, p.inventory_account_code, 0, cost))
                   # {}

C11_Movements(o) ==
    /\ Cardinality(MovementsOf(o)) = Cardinality(SoldItems(o))
    /\ \A m \in MovementsOf(o) : m.row.movement_type = "ISSUE"
    /\ \A i \in SoldItems(o) :
          \E m \in MovementsOf(o) :
              /\ m.row.product_id = OrderItems[o][i].product_id
              /\ m.row.quantity_change = 0 - OrderItems[o][i].quantity

C11_JournalComposition ==
    \A o \in completed :
        /\ Cardinality(JournalsOf(o)) = 1
        /\ \A j \in JournalsOf(o) : C11_Lines(o, j)
        /\ C11_Movements(o)
        /\ \A i \in ResolvedItems(o) \ CostedItems(o) :
              products[OrderItems[o][i].product_id].stock # None

\* both orders are posted; product 2, sold by order 1 without a cost price, has its
\* stock written
C11_Witness ==
    /\ completed = {1, 2}
    /\ ResolvedItems(1) \ CostedItems(1) # {}
    /\ products[2].stock = Some(0)

-----------------------------------------------------------------------------
(* C12: when a pipeline run that no other run overlaps ends successfully   *)
(* (its last insert answers and it returns True), the stock of every       *)
(* product the order sells is max(0, snapshot stock - the total quantity   *)
(* of that product over all lines of the order).                           *)
SnapshotStockLessTotal(f, item) ==
    LET left == CurrentStock(item.products) - SoldOf(f.order_id, item.product_id)
    IN IF left < 0 THEN 0 ELSE left

C12_Step ==
    \A h \in Slots :
        LET f == handler[h]
        IN (f.pc = "insert_movements" /\ handler'[h].pc = "update_order"
               /\ handler'[h].journal_recorded)
           => \A i \in 1..Len(f.order.order_items) :
                 LET item == f.order.order_items[i]
                 IN NeedsStockUpdate(item)
                    => /\ products'[item.product_id].stock # None
                       /\ OrZero(products'[item.product_id].stock) = SnapshotStockLessTotal(f, item)

C12_StockLessTotalSold == [][C12_Step]_vars

-----------------------------------------------------------------------------
(* C13: a step of a pipeline run that changes a product's stock is taken   *)
(* only when the journal lines and the inventory movements of that run     *)
(* are already in the store.                                               *)
C13_Step ==
    \A h \in Slots :
        LET f == handler[h]
        IN (f.pc = "update_stock" /\ products' # products)
           => /\ \E l \in journal_lines : l.row.journal_id = f.journal_id
              /\ \E m \in inventory_movements : m.row.reference_id = f.order_id

C13_StockAfterLinesAndMovements == [][C13_Step]_vars

-----------------------------------------------------------------------------
(* C14: two overlapping pipeline runs for different orders that read the   *)
(* same snapshot stock of product 1 and have both issued all their stock   *)
(* updates leave the stock at the snapshot less the quantity of one run's  *)
(* last line of product 1 (floored at 0): the writer that came last wins   *)
(* and the other run's decrement is lost, while both runs go on to record  *)
(* their movements.                                                        *)
PastLoop(f) == f.pc \in {"insert_lines", "insert_movements"}

\* the snapshot stock of product 1 held by a run that is past line 46
SnapshotStock(f) ==
    LET I == {i \in 1..Len(f.order.order_items) : f.order.order_items[i].product_id = 1}
    IN CurrentStock(f.order.order_items[CHOOSE i \in I : TRUE].products)

\* the last write of product 1's stock by a run for order o out of snapshot stock s
LastWrite(o, s) ==
    LET I == {i \in SoldItems(o) : OrderItems[o][i].product_id = 1}
        last == CHOOSE i \in I : \A k \in I : k <= i
        left == s - OrderItems[o][last].quantity
    IN IF left < 0 THEN 0 ELSE left

C14_LastWriterWins ==
    \A h1, h2 \in Slots :
        LET f1 == handler[h1]
            f2 == handler[h2]
        IN (/\ h1 # h2
            /\ PastLoop(f1) /\ PastLoop(f2)
            /\ f1.order_id # f2.order_id
            /\ SnapshotStock(f1) = SnapshotStock(f2))
           => StockOf(1) \in {LastWrite(f1.order_id, SnapshotStock(f1)),
                              LastWrite(f2.order_id, SnapshotStock(f2))}

\* no call raised, both orders are posted with all their movements (-1 and -3 of
\* product 1), and the stock of product 1 went from 3 to 2: order 2's decrement is lost
C14_Witness ==
    /\ stock0 = 3
    /\ faults = MaxRaised
    /\ completed = {1, 2}
    /\ \A o \in {1, 2} : Cardinality(MovementsOf(o)) = Cardinality(SoldItems(o))
    /\ SumChange({m \in inventory_movements : m.row.product_id = 1}) = 0 - 4
    /\ StockOf(1) = LastWrite(1, stock0)
    /\ StockOf(1) = 2

-----------------------------------------------------------------------------
(* C15: in every reachable state the status of every order is one of       *)
(* "pending", "settle" and "failed".                                       *)
C15_StatusDomain ==
    \A o \in DOMAIN orders : orders[o].status \in {"pending", "settle", "failed"}

-----------------------------------------------------------------------------
(* C16: while a capture or settlement notification whose numeric order id  *)
(* has no order row is handled, no journal header, journal line or         *)
(* inventory movement is inserted and no product stock is updated;         *)
(* record_sales_journal returns False; the order update is still issued,   *)
(* and when it answers the reply is ok with journal_processed = false.     *)
OrderNotFound(h) ==
    /\ Settling(h)
    /\ WellFormed(handler[h].payload)
    /\ handler[h].order_id \notin DOMAIN orders

C16_Step(h) ==
    LET f == handler[h]
        g == handler'[h]
    IN OrderNotFound(h) =>
          /\ UNCHANGED ledger
          /\ g.pc \in {"update_order", "done"} => ~g.journal_recorded
          /\ g.pc = "done" => g.update_issued
          /\ f.pc = "update_order" => g.update_issued
          /\ (g.pc = "done" /\ ~g.update_failed) => g.response = OkResponse(FALSE)

C16_OrderNotFound == [][\A h \in Slots : C16_Step(h)]_vars

\* a settlement for order id 3, which has no row: the guard and the load answered,
\* nothing was posted, the update was issued and the answer is ok / false
C16_Witness ==
    \E h \in Slots :
        /\ handler[h].pc = "done"
        /\ OrderNotFound(h)
        /\ handler[h].order_id = 3
        /\ ~handler[h].pipe_raised
        /\ handler[h].update_issued
        /\ handler[h].response = OkResponse(FALSE)
        /\ journal_entries = {} /\ journal_lines = {} /\ inventory_movements = {}
        /\ products = ProductRows(stock0)

-----------------------------------------------------------------------------
(* C17: while a notification whose provider status is neither "capture"    *)
(* nor "settlement" is handled, journal entries, journal lines, inventory  *)
(* movements and products do not change and record_sales_journal is not    *)
(* entered; the only row written is the named order's, with the status and *)
(* the transaction id; an ok reply carries journal_processed = false.      *)
NonSuccess(h) ==
    /\ handler[h].pc # "idle"
    /\ handler[h].payload.parsable
    /\ handler[h].payload.transaction_status \notin {"capture", "settlement"}

C17_Step(h) ==
    LET f == handler[h]
        g == handler'[h]
    IN NonSuccess(h) =>
          /\ UNCHANGED ledger
          /\ g.pc \notin PipelinePcs
          /\ \A o \in DOMAIN orders :
                orders'[o] # orders[o] =>
                    /\ f.pc = "update_order"
                    /\ o = f.order_id
                    /\ orders'[o].midtrans_order_id = f.payload.transaction_id
          /\ (g.pc = "done" /\ WellFormed(f.payload) /\ ~g.update_failed)
                => g.response = OkResponse(FALSE)

C17_NonSuccessFrame == [][\A h \in Slots : C17_Step(h)]_vars

\* a refund notification for order 1 has been answered ok / false: the order row holds
\* "refund" and the transaction id, and nothing else was written
C17_Witness ==
    \E h \in Slots :
        /\ handler[h].pc = "done"
        /\ NonSuccess(h)
        /\ handler[h].payload.transaction_status = "refund"
        /\ handler[h].order_id = 1
        /\ orders[1] = [status |-> "refund", midtrans_order_id |-> "t1"]
        /\ orders[2].status = "pending"
        /\ handler[h].response = OkResponse(FALSE)
        /\ journal_entries = {} /\ journal_lines = {} /\ inventory_movements = {}
        /\ products = ProductRows(stock0)

-----------------------------------------------------------------------------
(* C18: whenever the handler has answered journal_processed = true for an  *)
(* order, the store holds a journal entry of that order with the debit of  *)
(* the order total to 1-1100 and the credit of it to 4-1100, and one       *)
(* inventory movement for each order line with quantity > 0.               *)
C18_ReportedSuccessIsComplete ==
    \A h \in Slots :
        LET f == handler[h]
        IN (f.pc = "done" /\ f.response = OkResponse(TRUE)) =>
              /\ \E j \in JournalsOf(f.order_id) :
                    /\ RowsEqual(LinesOf(j),
                           JournalLine(j.id, CASH_ACCOUNT, OrderTotal[f.order_id], 0)) # {}
                    /\ RowsEqual(LinesOf(j),
                           JournalLine(j.id, SALES_ACCOUNT, 0, OrderTotal[f.order_id])) # {}
              /\ Cardinality(MovementsOf(f.order_id)) >= Cardinality(SoldItems(f.order_id))

-----------------------------------------------------------------------------
(* C19: once an order has the status "settle" and its journal is posted,   *)
(* no step changes its status.                                             *)
C19_Step ==
    \A o \in DOMAIN orders :
        (orders[o].status = "settle" /\ o \in completed) => orders'[o].status = "settle"

C19_SettleIsStable == [][C19_Step]_vars

-----------------------------------------------------------------------------
(* C20: in every state in which no pipeline run is under way, the stock of *)
(* product 1 is lower than at the start by no more than the quantity the   *)
(* inventory movements of product 1 record.                                *)
C20_StockMatchesMovements ==
    (\A h \in Slots : handler[h].pc \notin PipelinePcs) =>
        stock0 - StockOf(1)
            <= 0 - SumChange({m \in inventory_movements : m.row.product_id = 1})

====
